---- MODULE Spec2Model ----
(***************************************************************************)
(* Model of car_valuation_automation.py: the config-driven flow executor   *)
(* (WebsiteValidator.search_registration under the retry decorator), the   *)
(* field extractor (get_vehicle_details), validate_registration and the    *)
(* nested loop of main().  The browser is the environment: every driver    *)
(* call either succeeds, raises a WebDriverException (TimeoutException is  *)
(* a subclass) or raises some other Exception (a dead session surfaces as  *)
(* a connection error that is no WebDriverException).                      *)
(***************************************************************************)
EXTENDS Integers, Sequences, FiniteSets, TLC

VARIABLES
    registry,       \* the site registry validate_registration reads (WEBSITE_CONFIGS)
    sites,          \* the site ids the run iterates, in order
    input_regs,     \* main: registrations in load order, duplicates kept
    expected_data,  \* main: registration -> <<model, year>>
    pc,             \* position of the single thread of control
    session,        \* BrowserManager.driver: "none", "open", "quit"
    i,              \* main: index of the current site in sites
    j,              \* main: index of the current registration in input_regs
    results,        \* main: the list of results appended so far
    result,         \* validate_registration: the result dict being built
    tries,          \* retry decorator: attempts left (_tries)
    stepIdx,        \* search_registration: index of the step to play next
    page,           \* the browser: <<model, year>> shown by the loaded page
    act_model,      \* get_vehicle_details: the model text read so far
    searchRet,      \* what search_registration gave its caller for this pair
    caught,         \* validate_registration: the except clause was entered
    events,         \* history of this pair: <<operation, step index, outcome>>
    oracle,         \* the browser: registration -> operation -> possible outcomes
    run,            \* which call of main() this is
    first           \* the results of the first call of main(), once it is done

vars == <<registry, sites, input_regs, expected_data, pc, session, i, j, results,
          result, tries, stepIdx, page, act_model, searchRet, caught, events,
          oracle, run, first>>

-----------------------------------------------------------------------------
(* Bounds of the model *)

MaxRegs == 2

\* longest list of registrations in the runs checked for termination
MaxFairRegs == 1

(* Program constants *)

RETRIES == 2

-----------------------------------------------------------------------------
(* Site flow descriptors *)

WEBSITE_CONFIGS ==
    [motorway |->
        [base_url |-> "https://motorway.co.uk/",
         search_flow |-> <<
            [action |-> "input", locator |-> <<"css selector", "input#vrm-input">>,
             keys |-> "{registration}\n"],
            [wait_for |-> <<"css selector", "h1.HeroVehicle__title">>] >>,
         details |-> [model |-> <<"css selector", "h1.HeroVehicle__title">>,
                      year |-> <<"css selector", "ul.HeroVehicle__details li:first-child">>]],
     autotrader |->
        [base_url |-> "https://www.autotrader.co.uk/",
         search_flow |-> <<
            [action |-> "click",
             locator |-> <<"css selector", "button[data-testid='toggle-button']">>],
            [action |-> "input", locator |-> <<"id", "registration">>,
             keys |-> "{registration}"],
            [action |-> "click",
             locator |-> <<"css selector", "button[data-testid='search-button']">>],
            [wait_for |-> <<"css selector", "h1[data-testid='search-title']">>] >>,
         details |-> [model |-> <<"css selector", "h1[data-testid='search-title']">>,
                      year |-> <<"css selector", "li[data-testid='spec-year']">>]],
     confused |->
        [base_url |-> "https://www.confused.com/car-insurance/your-car",
         search_flow |-> <<
            [action |-> "input", locator |-> <<"id", "Auto_Reg">>,
             keys |-> "{registration}"],
            [action |-> "click", locator |-> <<"id", "btnGetCarDetails">>],
            [wait_for |-> <<"css selector", "div.vehicle-details">>] >>,
         details |-> [model |-> <<"css selector", "span.vehicle-model">>,
                      year |-> <<"css selector", "span.vehicle-year">>]]]

\* main iterates the registry in its declaration order
BuiltinSites == <<"motorway", "autotrader", "confused">>

\* A registry for running validate_registration on a flow that can complete:
\* one site whose steps all carry an action tag (its wait step included).
TAGGED_CONFIGS ==
    [tagged |->
        [base_url |-> "https://tagged.test/",
         search_flow |-> <<
            [action |-> "input", locator |-> <<"id", "reg">>, keys |-> "{registration}"],
            [action |-> "click", locator |-> <<"id", "go">>],
            [action |-> "wait", wait_for |-> <<"css selector", "div.result">>] >>,
         details |-> [model |-> <<"css selector", "span.model">>,
                      year |-> <<"css selector", "span.year">>]]]

\* the registry and site list of a run: main over the built-in registry, and
\* validate_registration driven over the tagged registry and an unknown site id
Runs ==
    { <<WEBSITE_CONFIGS, BuiltinSites>>,
      <<TAGGED_CONFIGS, <<"tagged", "nosuch">>>> }

-----------------------------------------------------------------------------
(* Inputs *)

Regs == {"AB12 CDE", "XX99 ZZZ"}

RegLists == UNION { [1..n -> Regs] : n \in 0..MaxRegs }

ExpectedMaps ==
    { [r \in {"AB12 CDE"} |-> <<"Ford Focus", "2019">>],
      [r \in Regs |-> IF r = "AB12 CDE" THEN <<"Ford Focus", "2019">>
                                        ELSE <<"Ford Fiesta", "2020">>] }

\* an element's text as the browser returns it: the text proper, possibly with
\* whitespace before and after it
Raw(s) == [pre |-> FALSE, text |-> s, post |-> FALSE]

Padded(s) == [pre |-> TRUE, text |-> s, post |-> TRUE]

\* str.strip(): drops the surrounding whitespace
Strip(raw) == raw.text

\* what a loaded result page may show: <<model text, year text>>
Pages ==
    { <<Raw("Ford Focus"), Raw("2019")>>,
      <<Padded("Ford Focus"), Padded("2019")>>,
      <<Raw("Ford Fiesta"), Raw("2019")>>,
      <<Raw("Ford Focus"), Raw("2020")>> }

NoPage == <<Raw(""), Raw("")>>

\* outcomes of one driver call
Outcomes == {"ok", "WebDriverException", "Exception"}

\* a site about which nothing is known: every call may end in every way
FreeScript ==
    [get |-> Outcomes, input |-> Outcomes, click |-> Outcomes, wait |-> Outcomes,
     model |-> Outcomes, year |-> Outcomes,
     is_connectable |-> {"True", "False", "Exception"},
     save_screenshot |-> Outcomes, page |-> Pages]

FreeOracle == [r \in Regs |-> FreeScript]

\* a deterministic site: every call has one outcome; Script(p, op, out, c, s) shows
\* page p, answers out to operation op and ok to the others, c to the
\* reachability check and s to the screenshot
Script(p, op, out, c, s) ==
    [k \in DOMAIN FreeScript |->
        IF k = "page" THEN {p}
        ELSE IF k = "is_connectable" THEN {c}
        ELSE IF k = "save_screenshot" THEN {s}
        ELSE IF k = op THEN {out}
        ELSE {"ok"}]

DetScripts ==
    { Script(<<Raw("Ford Focus"), Raw("2019")>>, "get", "ok", "True", "ok"),
      Script(<<Raw("Ford Fiesta"), Raw("2019")>>, "get", "ok", "True", "ok"),
      Script(<<Raw("Ford Focus"), Raw("2019")>>, "get", "WebDriverException", "True", "ok"),
      Script(<<Raw("Ford Focus"), Raw("2019")>>, "click", "Exception", "True", "Exception"),
      Script(<<Raw("Ford Focus"), Raw("2019")>>, "model", "WebDriverException", "False", "ok"),
      Script(<<Raw("Ford Focus"), Raw("2020")>>, "year", "Exception", "Exception", "ok") }

DetOracles == [Regs -> DetScripts]

-----------------------------------------------------------------------------
(* Pure helpers of the code *)

\* selenium: TimeoutException and the other browser failures derive from
\* WebDriverException; KeyError and connection errors do not
IsWebDriverException(exc) == exc = "WebDriverException"

\* _execute_action: which branch a step takes; a step dict without an "action"
\* key raises KeyError at the first comparison
StepKind(step) ==
    IF "action" \notin DOMAIN step THEN "KeyError"
    ELSE IF step.action = "input" THEN "input"
    ELSE IF step.action = "click" THEN "click"
    ELSE IF "wait_for" \in DOMAIN step THEN "wait"
    ELSE "noop"

\* mutant: the body has no except clause, every exception leaves it
SearchExceptNone(exc) == "raise"

\* mutant: the body catches every Exception, not only WebDriverException
SearchExceptAll(exc) == "return False"

\* search_registration: the except clause of its body
SearchExcept(exc) ==
    IF IsWebDriverException(exc) THEN "return False" ELSE "raise"

\* the retry decorator: an exception leaving the body is retried when it is a
\* WebDriverException and tries remain after this one
RetryAgain(exc, t) == IsWebDriverException(exc) /\ t - 1 > 0

\* mutant: the default of the lookup is the placeholder pair of the result
ExpectedGetPlaceholder(map, reg) ==
    IF reg \in DOMAIN map THEN map[reg] ELSE <<"N/A", "N/A">>

\* validate_registration: expected_data.get(reg, ("Not Found", "N/A"))
ExpectedGet(map, reg) ==
    IF reg \in DOMAIN map THEN map[reg] ELSE <<"Not Found", "N/A">>

\* validate_registration: the initial result dict
NewResult(site, reg) ==
    [website |-> site, reg |-> reg, exp_model |-> "N/A", exp_year |-> "N/A",
     act_model |-> "N/A", act_year |-> "N/A", status |-> "Error"]

\* mutant: "or" for "and" in the comparison
ClassifyEither(am, ay, exp) ==
    IF am = exp[1] \/ ay = exp[2] THEN "Pass" ELSE "Fail"

\* validate_registration: the status of a pair whose details were extracted
Classify(am, ay, exp) ==
    IF am = exp[1] /\ ay = exp[2] THEN "Pass" ELSE "Fail"

\* mutant: the update leaves the status out
OnDetailsNoStatus(res, am, ay, exp) ==
    [res EXCEPT !.act_model = am, !.act_year = ay]

\* validate_registration: result.update(...) after get_vehicle_details returned
OnDetails(res, am, ay, exp) ==
    [res EXCEPT !.act_model = am, !.act_year = ay, !.status = Classify(am, ay, exp)]

\* mutant: only the field whose lookup failed falls back to its sentinel
DetailsExceptPartial(am) == <<IF am = "" THEN "Not Found" ELSE am, "N/A">>

\* get_vehicle_details: the except clause; am is the model text read so far
\* ("" when the model lookup itself failed)
DetailsExcept(am) == <<"Not Found", "N/A">>

\* mutant: the else branch is missing, the initial status stays
OnSearchFailedKeep(res) == res

\* validate_registration: the else branch, search_registration returned False
OnSearchFailed(res) == [res EXCEPT !.status = "Search Failed"]

\* mutant: the inner except catches WebDriverException only
ScreenshotExceptBrowser(exc) ==
    IF IsWebDriverException(exc) THEN "logged" ELSE "raise"

\* validate_registration: the inner except around the reachability check and
\* the screenshot: any Exception is logged, none leaves
ScreenshotExcept(exc) == "logged"

-----------------------------------------------------------------------------
(* Initial state: main() has loaded its two input files *)

InitWith(runs, oracles) ==
    /\ \E r \in runs : registry = r[1] /\ sites = r[2]
    /\ oracle \in oracles
    /\ run = 1
    /\ first = << >>
    /\ input_regs \in RegLists
    /\ expected_data \in ExpectedMaps
    /\ pc = "start"
    /\ session = "none"
    /\ i = 1
    /\ j = 1
    /\ results = << >>
    /\ result = NewResult("", "")
    /\ tries = 0
    /\ stepIdx = 0
    /\ page = NoPage
    /\ act_model = ""
    /\ searchRet = "none"
    /\ caught = FALSE
    /\ events = << >>

\* the browser is free: every call may end in every way
InitOf(runs) == InitWith(runs, {FreeOracle})

Init == InitOf(Runs)

\* main() as shipped: the built-in registry, iterated in declaration order
InitMain == InitOf({ <<WEBSITE_CONFIGS, BuiltinSites>> })

\* what no step of a call of main() changes
inputs == <<registry, sites, input_regs, expected_data, oracle, run, first>>

\* the outcomes the browser may give to operation op in the current pair
Env(op) == oracle[result.reg][op]

-----------------------------------------------------------------------------
(* Actions *)

\* BrowserManager.__enter__: start the browser; a failure to start is fatal
Enter ==
    /\ pc = "start"
    /\ \E out \in {"ok", "WebDriverException"} :
        IF out = "ok"
        THEN session' = "open" /\ pc' = "loop"
        ELSE session' = "none" /\ pc' = "failed"
    /\ UNCHANGED <<inputs, i, j, results, result, tries, stepIdx, page, act_model,
                   searchRet, caught, events>>

\* main: the head of the nested loop; calls validate_registration for the next
\* pair (which builds its initial result) or leaves the with block
MainLoop ==
    /\ pc = "loop"
    /\ IF i <= Len(sites) /\ j <= Len(input_regs)
       THEN /\ result' = NewResult(sites[i], input_regs[j])
            /\ pc' = "validate"
       ELSE /\ pc' = "exit"
            /\ UNCHANGED result
    /\ UNCHANGED <<inputs, session, i, j, results, tries, stepIdx, page, act_model,
                   searchRet, caught, events>>

\* validate_registration: look the site up, build the validator, fetch the
\* expected values, call search_registration
ValidateStart ==
    /\ pc = "validate"
    /\ IF result.website \notin DOMAIN registry
       THEN \* WEBSITE_CONFIGS[website_name] raises KeyError
            /\ caught' = TRUE
            /\ events' = Append(events, <<"config", 0, "KeyError">>)
            /\ pc' = "except"
            /\ UNCHANGED <<result, tries>>
       ELSE /\ result' = [result EXCEPT
                            !.exp_model = ExpectedGet(expected_data, result.reg)[1],
                            !.exp_year = ExpectedGet(expected_data, result.reg)[2]]
            /\ tries' = RETRIES
            /\ pc' = "nav"
            /\ UNCHANGED <<caught, events>>
    /\ UNCHANGED <<inputs, session, i, j, results, stepIdx, page, act_model, searchRet>>

\* mutant: a WebDriverException restarts the attempt, without any budget
AttemptRaisedForever(exc, ev) ==
    /\ stepIdx' = 0
    /\ IF IsWebDriverException(exc)
       THEN /\ events' = << >>
            /\ pc' = "nav"
            /\ UNCHANGED <<searchRet, result, caught, tries>>
       ELSE /\ events' = Append(events, ev)
            /\ searchRet' = "raised"
            /\ caught' = TRUE
            /\ pc' = "except"
            /\ UNCHANGED <<tries, result>>

\* an attempt of search_registration raised exc: the body's except clause, then
\* the retry decorator, then the caller
AttemptRaised(exc, ev) ==
    /\ events' = Append(events, ev)
    /\ stepIdx' = 0
    /\ IF SearchExcept(exc) = "return False"
       THEN /\ searchRet' = "False"
            /\ result' = OnSearchFailed(result)
            /\ pc' = "ret"
            /\ UNCHANGED <<tries, caught>>
       ELSE IF RetryAgain(exc, tries)
       THEN /\ tries' = tries - 1
            /\ pc' = "nav"
            /\ UNCHANGED <<searchRet, result, caught>>
       ELSE /\ searchRet' = "raised"
            /\ caught' = TRUE
            /\ pc' = "except"
            /\ UNCHANGED <<tries, result>>

\* mutant: the loop over the steps stops one step early
StepDoneEarly(ev) ==
    /\ events' = Append(events, ev)
    /\ IF stepIdx < Len(registry[result.website].search_flow) - 1
       THEN /\ stepIdx' = stepIdx + 1
            /\ pc' = "step"
            /\ UNCHANGED searchRet
       ELSE /\ stepIdx' = 0
            /\ searchRet' = "True"
            /\ pc' = "model"
    /\ UNCHANGED <<result, tries, caught>>

\* an attempt played its step at stepIdx: go on to the next step, or return True
StepDone(ev) ==
    /\ events' = Append(events, ev)
    /\ IF stepIdx < Len(registry[result.website].search_flow)
       THEN /\ stepIdx' = stepIdx + 1
            /\ pc' = "step"
            /\ UNCHANGED searchRet
       ELSE /\ stepIdx' = 0
            /\ searchRet' = "True"
            /\ pc' = "model"
    /\ UNCHANGED <<result, tries, caught>>

\* search_registration: driver.get(base_url) starts an attempt
DriverGet ==
    /\ pc = "nav"
    /\ \E out \in Env("get") :
        IF out = "ok"
        THEN /\ page' \in Env("page")
             /\ StepDone(<<"get", 0, "ok">>)
        ELSE /\ page' = NoPage
             /\ AttemptRaised(out, <<"get", 0, out>>)
    /\ UNCHANGED <<inputs, session, i, j, results, act_model>>

\* search_registration: _execute_action on the step at stepIdx
ExecuteAction ==
    /\ pc = "step"
    /\ LET step == registry[result.website].search_flow[stepIdx]
           kind == StepKind(step)
       IN  IF kind = "KeyError"
           THEN AttemptRaised("KeyError", <<"dispatch", stepIdx, "KeyError">>)
           ELSE IF kind = "noop"
           THEN StepDone(<<"noop", stepIdx, "ok">>)
           ELSE \E out \in Env(kind) :
                   IF out = "ok"
                   THEN StepDone(<<kind, stepIdx, "ok">>)
                   ELSE AttemptRaised(out, <<kind, stepIdx, out>>)
    /\ UNCHANGED <<inputs, session, i, j, results, page, act_model>>

\* mutant: the model is written into the result as soon as it is read
GetModelEager ==
    /\ pc = "model"
    /\ \E out \in Env("model") :
        /\ events' = Append(events, <<"model", 0, out>>)
        /\ IF out = "ok"
           THEN /\ act_model' = Strip(page[1])
                /\ result' = [result EXCEPT !.act_model = Strip(page[1])]
                /\ pc' = "year"
                /\ UNCHANGED caught
           ELSE IF IsWebDriverException(out)
           THEN /\ result' = OnDetails(result, DetailsExcept("")[1], DetailsExcept("")[2],
                                       ExpectedGet(expected_data, result.reg))
                /\ pc' = "ret"
                /\ UNCHANGED <<act_model, caught>>
           ELSE /\ caught' = TRUE
                /\ pc' = "except"
                /\ UNCHANGED <<act_model, result>>
    /\ UNCHANGED <<inputs, session, i, j, results, tries, stepIdx, page, searchRet>>

\* get_vehicle_details: wait for the model element and read its text
GetModel ==
    /\ pc = "model"
    /\ \E out \in Env("model") :
        /\ events' = Append(events, <<"model", 0, out>>)
        /\ IF out = "ok"
           THEN /\ act_model' = Strip(page[1])
                /\ pc' = "year"
                /\ UNCHANGED <<result, caught>>
           ELSE IF IsWebDriverException(out)
           THEN /\ result' = OnDetails(result, DetailsExcept("")[1], DetailsExcept("")[2],
                                       ExpectedGet(expected_data, result.reg))
                /\ pc' = "ret"
                /\ UNCHANGED <<act_model, caught>>
           ELSE /\ caught' = TRUE
                /\ pc' = "except"
                /\ UNCHANGED <<act_model, result>>
    /\ UNCHANGED <<inputs, session, i, j, results, tries, stepIdx, page, searchRet>>

\* get_vehicle_details: wait for the year element, read its text and return;
\* validate_registration then classifies the pair
GetYear ==
    /\ pc = "year"
    /\ \E out \in Env("year") :
        /\ events' = Append(events, <<"year", 0, out>>)
        /\ IF out = "ok"
           THEN /\ result' = OnDetails(result, act_model, Strip(page[2]),
                                       ExpectedGet(expected_data, result.reg))
                /\ pc' = "ret"
                /\ UNCHANGED caught
           ELSE IF IsWebDriverException(out)
           THEN /\ result' = OnDetails(result, DetailsExcept(act_model)[1],
                                       DetailsExcept(act_model)[2],
                                       ExpectedGet(expected_data, result.reg))
                /\ pc' = "ret"
                /\ UNCHANGED caught
           ELSE /\ caught' = TRUE
                /\ pc' = "except"
                /\ UNCHANGED result
    /\ UNCHANGED <<inputs, session, i, j, results, tries, stepIdx, page, act_model,
                   searchRet>>

\* mutant: the screenshot is taken whatever the reachability check answers
HandleExceptionAlways ==
    /\ pc = "except"
    /\ \E out \in Env("is_connectable") :
        /\ events' = Append(events, <<"is_connectable", 0, out>>)
        /\ IF out \in {"True", "False"} THEN pc' = "shot"
           ELSE IF ScreenshotExcept(out) = "logged" THEN pc' = "ret"
           ELSE pc' = "raised"
    /\ UNCHANGED <<inputs, session, i, j, results, result, tries, stepIdx, page,
                   act_model, searchRet, caught>>

\* validate_registration: the except clause; asks whether the session is
\* still reachable
HandleException ==
    /\ pc = "except"
    /\ \E out \in Env("is_connectable") :
        /\ events' = Append(events, <<"is_connectable", 0, out>>)
        /\ IF out = "True" THEN pc' = "shot"
           ELSE IF out = "False" THEN pc' = "ret"
           ELSE IF ScreenshotExcept(out) = "logged" THEN pc' = "ret"
           ELSE pc' = "raised"
    /\ UNCHANGED <<inputs, session, i, j, results, result, tries, stepIdx, page,
                   act_model, searchRet, caught>>

\* validate_registration: driver.save_screenshot(filename)
SaveScreenshot ==
    /\ pc = "shot"
    /\ \E out \in Env("save_screenshot") :
        /\ events' = Append(events, <<"save_screenshot", 0, out>>)
        /\ IF out = "ok" THEN pc' = "ret"
           ELSE IF ScreenshotExcept(out) = "logged" THEN pc' = "ret"
           ELSE pc' = "raised"
    /\ UNCHANGED <<inputs, session, i, j, results, result, tries, stepIdx, page,
                   act_model, searchRet, caught>>

\* mutant: a pair that ended in Error is skipped instead of appended
AppendResultSkipError ==
    /\ pc = "ret"
    /\ results' = IF result.status = "Error" THEN results ELSE Append(results, result)
    /\ IF j < Len(input_regs)
       THEN j' = j + 1 /\ i' = i
       ELSE j' = 1 /\ i' = i + 1
    /\ pc' = "loop"
    /\ tries' = 0
    /\ stepIdx' = 0
    /\ page' = NoPage
    /\ act_model' = ""
    /\ searchRet' = "none"
    /\ caught' = FALSE
    /\ events' = << >>
    /\ UNCHANGED <<inputs, session, result>>

\* mutant: the result is put at the front of the list
AppendResultFront ==
    /\ pc = "ret"
    /\ results' = <<result>> \o results
    /\ IF j < Len(input_regs)
       THEN j' = j + 1 /\ i' = i
       ELSE j' = 1 /\ i' = i + 1
    /\ pc' = "loop"
    /\ tries' = 0
    /\ stepIdx' = 0
    /\ page' = NoPage
    /\ act_model' = ""
    /\ searchRet' = "none"
    /\ caught' = FALSE
    /\ events' = << >>
    /\ UNCHANGED <<inputs, session, result>>

\* main: results.append(result), then on to the next pair
AppendResult ==
    /\ pc = "ret"
    /\ results' = Append(results, result)
    /\ IF j < Len(input_regs)
       THEN j' = j + 1 /\ i' = i
       ELSE j' = 1 /\ i' = i + 1
    /\ pc' = "loop"
    /\ tries' = 0
    /\ stepIdx' = 0
    /\ page' = NoPage
    /\ act_model' = ""
    /\ searchRet' = "none"
    /\ caught' = FALSE
    /\ events' = << >>
    /\ UNCHANGED <<inputs, session, result>>

\* mutant: no context manager, the driver is quit on the normal path only
ExitNormalOnly ==
    /\ pc \in {"exit", "raised"}
    /\ session' = IF pc = "exit" THEN "quit" ELSE session
    /\ pc' = IF pc = "exit" THEN "report" ELSE "failed"
    /\ UNCHANGED <<inputs, i, j, results, result, tries, stepIdx, page, act_model,
                   searchRet, caught, events>>

\* BrowserManager.__exit__: quit the driver, on the normal path and when an
\* exception leaves the with block
Exit ==
    /\ pc \in {"exit", "raised"}
    /\ session' = "quit"
    /\ pc' = IF pc = "exit" THEN "report" ELSE "failed"
    /\ UNCHANGED <<inputs, i, j, results, result, tries, stepIdx, page, act_model,
                   searchRet, caught, events>>

\* main: hand the results to the HTML report and the CSV dump
Report ==
    /\ pc = "report"
    /\ pc' = "done"
    /\ UNCHANGED <<inputs, session, i, j, results, result, tries, stepIdx, page,
                   act_model, searchRet, caught, events>>

\* main: a KeyboardInterrupt (no Exception, so not caught by
\* validate_registration) arrives inside the with block; the frames of the pair
\* in progress are unwound and the exception leaves the block
Interrupt ==
    /\ pc \in {"loop", "validate", "nav", "step", "model", "year", "except", "shot", "ret"}
    /\ pc' = "raised"
    /\ tries' = 0
    /\ stepIdx' = 0
    /\ page' = NoPage
    /\ act_model' = ""
    /\ searchRet' = "none"
    /\ caught' = FALSE
    /\ events' = << >>
    /\ UNCHANGED <<inputs, session, i, j, results, result>>

Next ==
    \/ Enter
    \/ MainLoop
    \/ ValidateStart
    \/ DriverGet
    \/ ExecuteAction
    \/ GetModel
    \/ GetYear
    \/ HandleException
    \/ SaveScreenshot
    \/ AppendResult
    \/ Exit
    \/ Report

Spec == Init /\ [][Next]_vars

\* mutant: the list of results is not started afresh by the second call
RerunKeepResults ==
    /\ pc = "done"
    /\ run = 1
    /\ run' = 2
    /\ first' = results
    /\ pc' = "start"
    /\ session' = "none"
    /\ i' = 1
    /\ j' = 1
    /\ UNCHANGED <<registry, sites, input_regs, expected_data, oracle, results, result,
                   tries, stepIdx, page, act_model, searchRet, caught, events>>

\* main() is called again on the same inputs: it starts from an empty list of
\* results and a new browser; the results of the first call are kept aside
Rerun ==
    /\ pc = "done"
    /\ run = 1
    /\ run' = 2
    /\ first' = results
    /\ results' = << >>
    /\ pc' = "start"
    /\ session' = "none"
    /\ i' = 1
    /\ j' = 1
    /\ UNCHANGED <<registry, sites, input_regs, expected_data, oracle, result,
                   tries, stepIdx, page, act_model, searchRet, caught, events>>

\* two calls of main() against a deterministic site
NextTwice == Next \/ Rerun

InitDet == InitWith(Runs, DetOracles)

SpecTwice == InitDet /\ [][NextTwice]_vars

\* The single thread of main() runs on: every wait is bounded by the timeout of
\* WebDriverWait and every driver call returns or raises, so a step that can be
\* taken is taken.
InitFair == InitOf(Runs) /\ Len(input_regs) <= MaxFairRegs

SpecFair == InitFair /\ [][Next]_vars /\ WF_vars(Next)

\* the run with interrupts: an exception can leave the loop mid-run
NextInterruptible == Next \/ Interrupt

SpecInterruptible == Init /\ [][NextInterruptible]_vars

\* With the built-in registry search_registration never returns True, so
\* get_vehicle_details is never called (BuiltinNeverExtracts, an invariant of
\* Spec): the steps of main() as shipped are those of Next without GetModel and
\* GetYear.
NextMain ==
    \/ Enter
    \/ MainLoop
    \/ ValidateStart
    \/ DriverGet
    \/ ExecuteAction
    \/ HandleException
    \/ SaveScreenshot
    \/ AppendResult
    \/ Exit
    \/ Report

SpecMain == InitMain /\ [][NextMain]_vars

BuiltinNeverExtracts ==
    registry = WEBSITE_CONFIGS => (pc \notin {"model", "year"} /\ searchRet # "True")

-----------------------------------------------------------------------------
(* Reading the history of the current pair *)

\* operations an attempt of search_registration performs
SearchOps == {"get", "input", "click", "wait", "noop", "dispatch"}

\* calls into the browser (the dispatch of a step and the registry lookup are not)
BrowserOps == {"get", "input", "click", "wait", "model", "year",
               "is_connectable", "save_screenshot"}

\* number of attempts made so far: each starts with a navigation to the base URL
Attempts == Cardinality({k \in DOMAIN events : events[k][1] = "get"})

\* the attempt the k-th event belongs to
AttemptOf(k) == Cardinality({m \in 1..k : events[m][1] = "get"})

\* attempt n ended by raising exc
FailedWith(n, exc) ==
    \E k \in DOMAIN events :
        events[k][1] \in SearchOps /\ AttemptOf(k) = n /\ events[k][3] = exc

\* attempt n met some failure
Failed(n) ==
    \E k \in DOMAIN events :
        events[k][1] \in SearchOps /\ AttemptOf(k) = n /\ events[k][3] # "ok"

\* search_registration has given control back to validate_registration
SearchReturned == searchRet # "none"

\* every attempt made failed with a recoverable failure
AllAttemptsRecoverable ==
    Attempts >= 1 /\ \A n \in 1..Attempts : FailedWith(n, "WebDriverException")

\* no call into the browser failed in this pair
NoBrowserFailure ==
    \A k \in DOMAIN events :
        events[k][1] \in BrowserOps => events[k][3] \in {"ok", "True"}

\* the loaded page shows exactly the pair exp
PageShows(exp) == Strip(page[1]) = exp[1] /\ Strip(page[2]) = exp[2]

\* what get_vehicle_details returned, once both lookups were made or one timed out
Extracted ==
    IF \E k \in DOMAIN events : events[k] = <<"year", 0, "ok">>
    THEN <<Strip(page[1]), Strip(page[2])>>
    ELSE <<"Not Found", "N/A">>

-----------------------------------------------------------------------------
(* Claims *)

\* C1: an invocation of search_registration whose first attempt fails with a
\* WebDriverException and whose later attempts meet no failure makes a second
\* attempt and returns True.
C1_RetryThenSuccess ==
    (SearchReturned /\ FailedWith(1, "WebDriverException")
        /\ \A n \in 2..Attempts : ~Failed(n))
    => (Attempts >= 2 /\ searchRet = "True")

\* C2: an invocation of search_registration in which every attempt fails with a
\* WebDriverException makes exactly RETRIES + 1 = 3 attempts, and no invocation
\* makes more.
C2_ThreeAttempts ==
    /\ Attempts <= RETRIES + 1
    /\ (SearchReturned /\ AllAttemptsRecoverable) => Attempts = RETRIES + 1

\* C3: an invocation of search_registration in which every attempt fails with a
\* WebDriverException returns False and raises nothing: the except clause of
\* validate_registration is not entered and the pair is marked Search Failed.
C3_ExhaustedReturnsFalse ==
    (SearchReturned /\ AllAttemptsRecoverable)
    => (searchRet = "False" /\ ~caught /\ result.status = "Search Failed")

C3_Witness ==
    /\ pc = "ret"
    /\ searchRet = "False"
    /\ events = <<  <<"get", 0, "ok">>, <<"input", 1, "ok">>,
                    <<"click", 2, "WebDriverException">> >>

\* C4: when an attempt of search_registration raises anything other than a
\* WebDriverException, that attempt is the last one, the exception leaves
\* search_registration (no False is returned) and the executor is not running
\* any more.
C4_OtherFailuresPropagate ==
    \A k \in DOMAIN events :
        (events[k][1] \in SearchOps /\ events[k][3] \notin {"ok", "WebDriverException"})
        => /\ AttemptOf(k) = Attempts
           /\ searchRet = "raised"
           /\ pc \notin {"nav", "step", "model", "year"}

C4_Witness ==
    /\ pc = "except"
    /\ searchRet = "raised"
    /\ events = << <<"get", 0, "ok">>, <<"input", 1, "Exception">> >>

\* C5: for a built-in site, a pair in which no browser call fails and whose
\* registration is in the expected map ends with status Pass when the page
\* shows exactly the expected model and year, and with Fail when it shows
\* something else.
C5_BuiltinPassFail ==
    (pc = "ret" /\ registry = WEBSITE_CONFIGS /\ NoBrowserFailure
        /\ result.reg \in DOMAIN expected_data)
    => result.status = (IF PageShows(expected_data[result.reg]) THEN "Pass" ELSE "Fail")

\* C6: when search_registration returned True and get_vehicle_details returned
\* its pair, the result carries that pair as its actual fields and its status is
\* Pass if the actual model equals the expected model and the actual year equals
\* the expected year, and Fail otherwise.
C6_Classification ==
    (pc = "ret" /\ searchRet = "True" /\ ~caught)
    => /\ <<result.act_model, result.act_year>> = Extracted
       /\ <<result.exp_model, result.exp_year>> = ExpectedGet(expected_data, result.reg)
       /\ result.status \in {"Pass", "Fail"}
       /\ result.status = "Pass"
            <=> (result.act_model = result.exp_model /\ result.act_year = result.exp_year)

C6_Witness ==
    /\ pc = "ret"
    /\ searchRet = "True"
    /\ result.status = "Fail"
    /\ result.act_model = result.exp_model
    /\ result.act_year # result.exp_year
    /\ result.act_year # "N/A"

\* C7: when search_registration returned False, the result has status Search
\* Failed, both actual fields are "N/A", and get_vehicle_details was not called.
C7_SearchFailed ==
    searchRet = "False"
    => /\ pc = "ret"
       /\ result.status = "Search Failed"
       /\ result.act_model = "N/A"
       /\ result.act_year = "N/A"
       /\ \A k \in DOMAIN events : events[k][1] \notin {"model", "year"}

C7_Witness ==
    /\ pc = "ret"
    /\ searchRet = "False"
    /\ result.exp_model = "Ford Focus"
    /\ events = << <<"get", 0, "WebDriverException">> >>

\* C8: for a built-in site, a pair in which the navigation and every Input and
\* Click step succeed, the last step (the WaitFor) is reached and no wait ever
\* finds its element ends with status Search Failed.
C8_WaitTimeoutIsSearchFailed ==
    (/\ pc = "ret"
     /\ registry = WEBSITE_CONFIGS
     /\ \A k \in DOMAIN events :
            /\ events[k][1] \in {"get", "input", "click"} => events[k][3] = "ok"
            /\ events[k][1] = "wait" => events[k][3] = "WebDriverException"
     /\ \E k \in DOMAIN events :
            /\ events[k][1] \in {"wait", "dispatch"}
            /\ events[k][2] = Len(registry[result.website].search_flow))
    => result.status = "Search Failed"

\* C9: no exception leaves validate_registration; at every point of the loop
\* the results hold exactly one entry per pair already validated, and after the
\* loop their number is #sites * #registrations.
C9_OneResultPerPair ==
    /\ pc # "raised"
    /\ pc \in {"loop", "validate", "nav", "step", "model", "year", "except", "shot", "ret"}
        => Len(results) = (i - 1) * Len(input_regs) + (j - 1)
    /\ pc \in {"exit", "report", "done"}
        => Len(results) = Len(sites) * Len(input_regs)

C9_Witness ==
    /\ pc = "done"
    /\ Len(input_regs) = 2
    /\ input_regs[1] = input_regs[2]
    /\ Len(results) = Len(sites) * 2
    /\ results[1].status = "Error"
    /\ results[2].status = "Search Failed"

\* C10: an exception other than a WebDriverException raised while a pair is
\* validated (by a step, by the extractor, by the lookup of an unknown site id)
\* is caught in validate_registration; once caught, the result keeps status
\* Error, and nothing leaves validate_registration, whatever the reachability
\* check and the screenshot do.
C10_ErrorCaught ==
    /\ pc # "raised"
    /\ (\E k \in DOMAIN events :
            /\ events[k][1] \in SearchOps \cup {"model", "year", "config"}
            /\ events[k][3] \in {"KeyError", "Exception"})
        => caught
    /\ caught => (pc \in {"except", "shot", "ret"} /\ result.status = "Error")

C10_Witness ==
    /\ pc = "ret"
    /\ caught
    /\ result.status = "Error"
    /\ \E k \in DOMAIN events : events[k] = <<"model", 0, "Exception">>
    /\ events[Len(events)] = <<"save_screenshot", 0, "Exception">>

\* C11: the results are in production order, the entry at position
\* (s - 1) * #registrations + r being the one of site s and registration r, and
\* an entry once appended is never changed or removed.
C11_ProductionOrder ==
    /\ [](\A k \in 1..Len(results) :
            /\ results[k].website = sites[((k - 1) \div Len(input_regs)) + 1]
            /\ results[k].reg = input_regs[((k - 1) % Len(input_regs)) + 1])
    /\ [][/\ Len(results') >= Len(results)
          /\ SubSeq(results', 1, Len(results)) = results]_vars

C11_Witness ==
    /\ pc = "done"
    /\ Len(sites) = 3
    /\ Len(results) = 6
    /\ input_regs = <<"XX99 ZZZ", "AB12 CDE">>
    /\ results[3].website = "autotrader"
    /\ results[3].reg = "XX99 ZZZ"
    /\ results[3].status # results[4].status

\* C12: for a registration absent from the expected map (the site being known,
\* so that the lookup is made) the expected fields of the result are
\* ("Not Found", "N/A"); when the search succeeded and the extractor returned,
\* the status is Pass if the actual fields are exactly ("Not Found", "N/A"),
\* as they are when the extractor soft-fails, and Fail otherwise.
C12_MissingExpected ==
    (/\ pc = "ret"
     /\ result.website \in DOMAIN registry
     /\ result.reg \notin DOMAIN expected_data)
    => /\ result.exp_model = "Not Found"
       /\ result.exp_year = "N/A"
       /\ (searchRet = "True" /\ ~caught)
            => result.status = (IF Extracted = <<"Not Found", "N/A">> THEN "Pass" ELSE "Fail")
       /\ (searchRet = "True" /\ ~caught /\ events[Len(events)][3] = "WebDriverException")
            => result.status = "Pass"

C12_Witness ==
    /\ pc = "ret"
    /\ result.reg = "XX99 ZZZ"
    /\ result.reg \notin DOMAIN expected_data
    /\ searchRet = "True"
    /\ events[Len(events)] = <<"year", 0, "WebDriverException">>
    /\ result.status = "Pass"

\* C13: when the model lookup or the year lookup of get_vehicle_details times
\* out, the pair returned is ("Not Found", "N/A") as a whole, also when the model
\* had been read; nothing is raised, and the pair is classified Pass or Fail.
C13_SoftFailure ==
    (\E k \in DOMAIN events :
        events[k][1] \in {"model", "year"} /\ events[k][3] = "WebDriverException")
    => /\ pc = "ret"
       /\ ~caught
       /\ result.act_model = "Not Found"
       /\ result.act_year = "N/A"
       /\ result.status \in {"Pass", "Fail"}
       /\ result.status = "Pass"
            <=> ExpectedGet(expected_data, result.reg) = <<"Not Found", "N/A">>

C13_Witness ==
    /\ pc = "ret"
    /\ page[1] = Raw("Ford Focus")
    /\ result.exp_model = "Ford Focus"
    /\ events[Len(events) - 1] = <<"model", 0, "ok">>
    /\ events[Len(events)] = <<"year", 0, "WebDriverException">>
    /\ result.status = "Fail"

\* the operation _execute_action performs for a step (its dispatch alone when
\* the step has no action key)
OpOf(step) == IF StepKind(step) = "KeyError" THEN "dispatch" ELSE StepKind(step)

\* C14: an attempt starts with the navigation to the base URL and then plays
\* the steps of the descriptor in declared order, one at a time: each step
\* follows the successful operation just before it in the order; nothing of an
\* attempt follows a failed operation; and search_registration returns True only
\* after the last step of the descriptor succeeded.
C14_StepOrder ==
    /\ \A k \in DOMAIN events :
        events[k][1] \in SearchOps =>
            LET flow == registry[result.website].search_flow IN
            IF events[k][1] = "get"
            THEN /\ events[k][2] = 0
                 /\ k > 1 => (events[k-1][1] \in SearchOps /\ events[k-1][3] # "ok")
            ELSE /\ k > 1
                 /\ events[k-1][1] \in SearchOps
                 /\ events[k-1][3] = "ok"
                 /\ events[k][2] = events[k-1][2] + 1
                 /\ events[k][2] <= Len(flow)
                 /\ events[k][1] = OpOf(flow[events[k][2]])
    /\ searchRet = "True" =>
        \E k \in DOMAIN events :
            /\ events[k][1] \in SearchOps
            /\ events[k][2] = Len(registry[result.website].search_flow)
            /\ events[k][3] = "ok"
            /\ k < Len(events) => events[k+1][1] \notin SearchOps
    /\ pc = "step" =>
            /\ events[Len(events)][3] = "ok"
            /\ stepIdx = events[Len(events)][2] + 1

C14_Witness ==
    /\ pc = "model"
    /\ searchRet = "True"
    /\ events = << <<"get", 0, "ok">>, <<"input", 1, "ok">>, <<"click", 2, "ok">>,
                   <<"wait", 3, "ok">> >>

\* the statuses validate_registration assigns
Statuses == {"Pass", "Fail", "Search Failed", "Error"}

\* number of events of operation op in this pair
Count(op) == Cardinality({k \in DOMAIN events : events[k][1] = op})

\* C18: every result returned or appended carries one of the four statuses, and
\* a returned result has status Error exactly when the except clause of
\* validate_registration was entered for its pair.
C18_StatusClosed ==
    /\ \A k \in 1..Len(results) : results[k].status \in Statuses
    /\ pc = "ret" => /\ result.status \in Statuses
                     /\ result.status = "Error" <=> caught

C18_Witness ==
    /\ pc = "ret"
    /\ caught
    /\ result.status = "Error"
    /\ Len(results) = 1
    /\ results[1].status = "Pass"

\* C19: a result with status Error or Search Failed has both actual fields
\* "N/A", also when the extractor raised after reading the model; the actual
\* fields are written only together with a status Pass or Fail, so the result
\* under construction keeps "N/A" in both until then.
C19_ActualConsistent ==
    /\ \A k \in 1..Len(results) :
        results[k].status \in {"Error", "Search Failed"}
            => (results[k].act_model = "N/A" /\ results[k].act_year = "N/A")
    /\ pc \in {"validate", "nav", "step", "model", "year", "except", "shot", "ret"} =>
        /\ result.status \in {"Error", "Search Failed"}
            => (result.act_model = "N/A" /\ result.act_year = "N/A")
        /\ (result.act_model # "N/A" \/ result.act_year # "N/A")
            => (pc = "ret" /\ result.status \in {"Pass", "Fail"})

C19_Witness ==
    /\ pc = "ret"
    /\ result.status = "Error"
    /\ act_model = "Ford Focus"
    /\ result.act_model = "N/A"
    /\ \E k \in DOMAIN events : events[k] = <<"year", 0, "Exception">>

\* C20: in a pair the model lookup and the year lookup of get_vehicle_details
\* are each made at most once, and only after search_registration returned True
\* on its last step; a screenshot is attempted at most once, only after the
\* except clause was entered (status Error) and the reachability check answered
\* True; a pair that ends Pass, Fail or Search Failed has no reachability check
\* and no screenshot.
C20_ExtractorAndScreenshot ==
    /\ Count("model") <= 1
    /\ Count("year") <= 1
    /\ Count("is_connectable") <= 1
    /\ Count("save_screenshot") <= 1
    /\ \A k \in DOMAIN events :
        /\ events[k][1] = "model" =>
            /\ searchRet = "True"
            /\ k > 1
            /\ events[k-1][1] \in SearchOps
            /\ events[k-1][3] = "ok"
            /\ events[k-1][2] = Len(registry[result.website].search_flow)
        /\ events[k][1] = "year" => (k > 1 /\ events[k-1] = <<"model", 0, "ok">>)
        /\ events[k][1] = "save_screenshot" =>
            /\ caught
            /\ result.status = "Error"
            /\ k > 1
            /\ events[k-1] = <<"is_connectable", 0, "True">>
    /\ (pc = "ret" /\ result.status \in {"Pass", "Fail", "Search Failed"})
        => (Count("is_connectable") = 0 /\ Count("save_screenshot") = 0)

C20_Witness ==
    /\ pc = "ret"
    /\ result.status = "Error"
    /\ Count("model") = 1
    /\ events[Len(events) - 1] = <<"is_connectable", 0, "True">>
    /\ events[Len(events)] = <<"save_screenshot", 0, "ok">>

C17_Terminates ==
    /\ <>(pc \in {"done", "failed"})
    /\ (session = "open") ~> (pc = "done" /\ Len(results) = Len(sites) * Len(input_regs))

C17_Witness ==
    /\ pc = "done"
    /\ Len(results) = 3
    /\ results[1].status = "Search Failed"
    /\ results[2].status = "Error"
    /\ results[3].status = "Search Failed"

\* C16: against a deterministic site, a second call of main() on the same
\* sites, registrations and expected map ends with the same list of results as
\* the first: same length, same order, same fields, same statuses.
C16_SameResults ==
    (run = 2 /\ pc = "done") => results = first

C16_Witness ==
    /\ run = 2
    /\ pc = "done"
    /\ Len(results) = 4
    /\ results[1].status = "Fail"
    /\ results[2].status = "Error"
    /\ input_regs[1] # input_regs[2]

====
